---------------------------- MODULE Spec2Model ----------------------------
(***************************************************************************)
(* Model of add_files_to_xcode.py: the script that registers a fixed list  *)
(* of Swift files in ThinkFast.xcodeproj/project.pbxproj by textual        *)
(* insertion after located markers.                                        *)
(*                                                                         *)
(* Text.  A Python str is modelled as a sequence of tokens (TLA+ strings). *)
(* A token is a piece of text that no marker and no file name straddles,   *)
(* so that Python's substring test `a in b` and `b.find(a)` are the        *)
(* contiguous-subsequence test and search on token sequences.  The line    *)
(* break is the token NL.  Positions are Python's: 0-based, -1 for "not    *)
(* found"; slices are translated with SubSeq.                              *)
(***************************************************************************)
EXTENDS Integers, Sequences, FiniteSets, TLC

VARIABLES
    disk,              \* contents of ThinkFast.xcodeproj/project.pbxproj
    pc,                \* pc[p]: where invocation p of add_files_to_project is
    content,           \* content[p]: the in-memory buffer of invocation p
    files_to_process,  \* files_to_process[p]: list built by lines 37-44
    file_refs,         \* file_refs[p]: dict of lines 51,57 in insertion order
    build_files,       \* build_files[p]: dict of lines 52,58 in insertion order
    original,          \* original[p]: the text invocation p read (history)
    writes,            \* writes[p]: number of times p wrote the file (history)
    input,             \* the manifest before the first invocation (history)
    probe              \* inputs and results of the anchor selection on its own

vars == <<disk, pc, content, files_to_process, file_refs, build_files,
          original, writes, input, probe>>

-----------------------------------------------------------------------------
(* Python str operations on token sequences *)

NL == "\n"

\* a[i:i+len(b)] == b, i a 0-based position
MatchAt(text, pat, i) ==
    /\ i + Len(pat) <= Len(text)
    /\ \A j \in DOMAIN pat : text[i + j] = pat[j]

\* str.find(pat, start): lowest 0-based position >= start, or -1
find(text, pat, start) ==
    LET range == start..(Len(text) - Len(pat))
    IN  IF \E i \in range : MatchAt(text, pat, i)
        THEN CHOOSE i \in range :
                 /\ MatchAt(text, pat, i)
                 /\ \A j \in start..(i - 1) : ~MatchAt(text, pat, j)
        ELSE -1

\* pat in text
in(pat, text) == find(text, pat, 0) # -1

\* text[:pos + 1] + entries + text[pos + 1:]
InsertAfter(text, pos, entries) ==
    SubSeq(text, 1, pos + 1) \o entries \o SubSeq(text, pos + 2, Len(text))

\* ''.join(list of strings)
RECURSIVE join(_)
join(entries) ==
    IF entries = <<>> THEN <<>> ELSE Head(entries) \o join(Tail(entries))

\* path.split('/')[-1]
RECURSIVE LastComponent(_)
LastComponent(path) ==
    IF \E i \in 1..Len(path) : path[i] = "/"
    THEN LastComponent(Tail(path))
    ELSE path

-----------------------------------------------------------------------------
(* The candidate list, lines 9-23 *)

\* a path under ThinkFast/; the file name is itself a token sequence
P(dir, name) == <<"ThinkFast", "/">> \o dir \o <<"/">> \o name

DataLocal == <<"Data", "/", "Local">>
DomainUseCase == <<"Domain", "/", "UseCase">>
PresentationAuth == <<"Presentation", "/", "Auth">>
PresentationCharts == <<"Presentation", "/", "Charts">>
PresentationHome == <<"Presentation", "/", "Home">>

E(dir, name) == [file_path |-> P(dir, name), group_path |-> dir]

files_to_add ==
    << E(DataLocal, <<"OnboardingQuestManager.swift">>),
       E(DataLocal, <<"StreakRecoveryManager.swift">>),
       E(DomainUseCase, <<"UserBaselineCalculator.swift">>),
       E(PresentationAuth, <<"SignInView.swift">>),
       E(PresentationCharts, <<"AppBreakdownDonutChart.swift">>),
       E(PresentationCharts, <<"ChartModels.swift">>),
       E(PresentationCharts, <<"GoalProgressLineChart.swift">>),
       E(PresentationCharts, <<"TimePatternHeatmap.swift">>),
       E(PresentationCharts, <<"WeeklyUsageChart.swift">>),
       E(PresentationHome, <<"BaselineComparisonCard.swift">>),
       E(PresentationHome, <<"QuestProgressCard.swift">>),
       E(PresentationHome, <<"QuickWinCelebrations.swift">>),
       E(PresentationHome, <<"StreakRecoveryCard.swift">>) >>

\* hashlib.md5(("fileref_" + file_path).encode()).hexdigest()[:24].upper()
\* for files_to_add[i], as Python computes it
FileRefDigest ==
    << "7B26FF4A374F4071B055949A", "A22ED93355FB9DA4629EF832",
       "A5BD65A4AD038E0987EAF313", "0AFC3A18523613CEB6F1EEC4",
       "C840242D131470911539266E", "56D6349E69A78A3CFB2FA63A",
       "2820EEC1E904E4224B4D297D", "C7391895EF3B83E6B8FEC5F5",
       "266C51A5039833B53D4C9840", "358D85726BDB864E71DC4B74",
       "0755BE06B01111218B977381", "DC9CDD3D71648E5A50D19D34",
       "627C1F9199B35CC094C7ECD4" >>

\* the same for "buildfile_" + file_path
BuildFileDigest ==
    << "BBB4C46606B83EEB761B26D7", "25634F14962E8ED4B6A07472",
       "B4A3A57545F7F5D9A38B4184", "1A0D6EC7343E564B415331F2",
       "BECFC1A8FB819847908D9B23", "882FEBF320B223ACCA211DDC",
       "3C0F35F9951F4F39CFC4BE8C", "0AF7399EA74E37F484E5839C",
       "468BB1AE5F27F66599D630C0", "324662914BE79C7127BED5CD",
       "1754203E881F40C65CEB46C9", "7C82DA5A5942EAC6FEB97CC7",
       "4DCAF421515778A0B4FFF477" >>

\* generate_id, lines 25-28: a function of the seed alone (the seed is the
\* prefix token followed by the path)
generate_id(seed) ==
    LET i == CHOOSE k \in 1..Len(files_to_add) :
                 files_to_add[k].file_path = Tail(seed)
    IN  IF Head(seed) = "fileref_" THEN FileRefDigest[i] ELSE BuildFileDigest[i]

-----------------------------------------------------------------------------
(* The inserted lines, lines 73, 89, 124, 138 *)

\* line 73
FileRefEntry(file_ref_id, filename) ==
    <<"\t\t", file_ref_id, " /* ">> \o filename
    \o <<" */", " = {",
         "isa = PBXFileReference; lastKnownFileType = sourcecode.swift; path = ">>
    \o filename \o <<"; sourceTree = \"<group>\"; };", NL>>

\* line 89
BuildFileEntry(build_file_id, file_ref_id, filename) ==
    <<"\t\t", build_file_id, " /* ">> \o filename
    \o <<" in ", "Sources", " */", " = {", "isa = PBXBuildFile; fileRef = ",
         file_ref_id, " /* ">>
    \o filename \o <<" */", "; };", NL>>

\* line 124
GroupEntry(file_ref_id, filename) ==
    <<"\t\t\t\t", file_ref_id, " /* ">> \o filename \o <<" */", ",", NL>>

\* line 138
SourceEntry(build_file_id, filename) ==
    <<"\t\t\t\t", build_file_id, " /* ">> \o filename
    \o <<" in ", "Sources", " */", ",", NL>>

-----------------------------------------------------------------------------
(* The markers, lines 61, 79, 105-117, 128, 132 *)

pbx_file_ref_marker == <<"/* Begin PBXFileReference section */">>
pbx_build_file_marker == <<"/* Begin PBXBuildFile section */">>
sources_marker == <<" /* ", "Sources", " */", " = {">>
files_marker == <<"files = (">>

HomeMarker == <<"ManageAppsView.swift">>
ChartsMarker == <<"ChartModels.swift">>
PresentationMarker == <<"Presentation", " /* ", "Presentation", " */">>
LocalMarker == <<"Local", " /* ", "Local", " */">>
UseCaseMarker == <<"UseCase", " /* ", "UseCase", " */">>
ThinkFastMarker == <<"ThinkFast", " /* ", "ThinkFast", " */">>

\* lines 104-117: the marker for one entry, given the buffer at that moment
SelectMarker(file_path, text) ==
    IF in(<<"Home">>, file_path) THEN HomeMarker
    ELSE IF in(<<"Charts">>, file_path)
         THEN IF in(ChartsMarker, text) THEN ChartsMarker
              ELSE PresentationMarker
    ELSE IF in(<<"Auth">>, file_path) THEN PresentationMarker
    ELSE IF in(<<"Data", "/", "Local">>, file_path) THEN LocalMarker
    ELSE IF in(<<"UseCase">>, file_path) THEN UseCaseMarker
    ELSE ThinkFastMarker

-----------------------------------------------------------------------------
(* add_files_to_project, lines 30-147, as pure steps on the buffer *)

\* a slip in line 40: the whole path is looked up, not the bare file name
NeedsAdding_ByPath(text, e) == ~in(e.file_path, text)

\* lines 37-44: the entries whose bare file name is not in the text
NeedsAdding(text, e) == ~in(LastComponent(e.file_path), text)

\* a slip in lines 38-44: every entry is taken, present or not
CheckedFiles_All(text) ==
    [i \in 1..Len(files_to_add) |->
        [file_path |-> files_to_add[i].file_path,
         group_path |-> files_to_add[i].group_path,
         filename |-> LastComponent(files_to_add[i].file_path)]]

CheckedFiles(text) ==
    LET todo == SelectSeq(files_to_add, LAMBDA e : NeedsAdding(text, e))
    IN  [i \in 1..Len(todo) |->
            [file_path |-> todo[i].file_path,
             group_path |-> todo[i].group_path,
             filename |-> LastComponent(todo[i].file_path)]]

\* lines 54-58 (filenames of files_to_add are pairwise distinct, so the two
\* dicts are these lists in insertion order)
FileRefsOf(todo) ==
    [i \in 1..Len(todo) |->
        [filename |-> todo[i].filename,
         file_ref_id |-> generate_id(<<"fileref_">> \o todo[i].file_path),
         file_path |-> todo[i].file_path]]

BuildFilesOf(todo) ==
    [i \in 1..Len(todo) |->
        [filename |-> todo[i].filename,
         build_file_id |-> generate_id(<<"buildfile_">> \o todo[i].file_path),
         file_ref_id |-> generate_id(<<"fileref_">> \o todo[i].file_path)]]

\* lines 70-74
file_ref_entries(refs) ==
    [i \in 1..Len(refs) |-> FileRefEntry(refs[i].file_ref_id, refs[i].filename)]

\* lines 87-90
build_file_entries(builds) ==
    [i \in 1..Len(builds) |->
        BuildFileEntry(builds[i].build_file_id, builds[i].file_ref_id,
                       builds[i].filename)]

\* a slip in line 138: the reference id where the build id belongs
source_entries_ByRefId(builds) ==
    [i \in 1..Len(builds) |->
        SourceEntry(builds[i].file_ref_id, builds[i].filename)]

\* lines 136-139
source_entries(builds) ==
    [i \in 1..Len(builds) |->
        SourceEntry(builds[i].build_file_id, builds[i].filename)]

\* lines 68, 76 and 85, 92: insert after the line of the marker found at pos
InsertAfterMarkerLine(text, pos, entries) ==
    InsertAfter(text, find(text, <<NL>>, pos), join(entries))

\* lines 119-125 without the two checks for -1, as in the other passes
AddToGroup_Unchecked(text, ref) ==
    LET marker == SelectMarker(ref.file_path, text)
        pos == find(text, marker, 0)
        insert_pos == IF pos = -1 THEN -1 ELSE find(text, <<NL>>, pos)
    IN  InsertAfter(text, insert_pos, GroupEntry(ref.file_ref_id, ref.filename))

\* lines 104-125: one iteration of the group loop
AddToGroup(text, ref) ==
    LET marker == SelectMarker(ref.file_path, text)
        pos == find(text, marker, 0)
        insert_pos == find(text, <<NL>>, pos)
    IN  IF pos # -1 /\ insert_pos # -1
        THEN InsertAfter(text, insert_pos,
                         GroupEntry(ref.file_ref_id, ref.filename))
        ELSE text

\* the loop of line 96 run over reversed(file_refs.items())
RECURSIVE AddToGroups_Reversed(_, _)
AddToGroups_Reversed(text, refs) ==
    IF refs = <<>> THEN text
    ELSE AddToGroups_Reversed(AddToGroup(text, refs[Len(refs)]),
                              SubSeq(refs, 1, Len(refs) - 1))

\* lines 96-125: the loop over file_refs, in insertion order
RECURSIVE AddToGroups(_, _)
AddToGroups(text, refs) ==
    IF refs = <<>> THEN text
    ELSE AddToGroups(AddToGroup(text, Head(refs)), Tail(refs))

\* lines 128-141
AddToSources(text, builds) ==
    LET sources_pos == find(text, sources_marker, 0)
        files_start == find(text, files_marker, sources_pos)
    IN  IF sources_pos # -1 /\ files_start # -1
        THEN InsertAfterMarkerLine(text, files_start, source_entries(builds))
        ELSE text

-----------------------------------------------------------------------------
(* The manifests the invocations start from *)

\* how many of the optional lines of the skeleton may be left out
MaxAbsent == 1

Kinds == <<"BuildBegin", "HomeAnchor", "RefBegin", "Present",
           "PresentationAnchor", "LocalAnchor", "UseCaseAnchor",
           "SourcesBegin", "FilesOpen">>

OptionalKinds == {Kinds[i] : i \in 1..Len(Kinds)} \ {"Present"}

\* the kinds that may be moved to the end of the file as an unterminated line
LastKinds == {"none", "RefBegin", "BuildBegin", "LocalAnchor", "FilesOpen"}

\* candidates whose presence in the manifest is chosen one by one
Toggled == {2, 6}
AllCandidates == 1..Len(files_to_add)
PresentChoices == (SUBSET Toggled) \cup {AllCandidates}

\* the reference line an earlier run left for candidate i
PresentLine(i) ==
    FileRefEntry(generate_id(<<"fileref_">> \o files_to_add[i].file_path),
                 LastComponent(files_to_add[i].file_path))

RECURSIVE PresentLines(_, _)
PresentLines(i, present) ==
    IF i > Len(files_to_add) THEN <<>>
    ELSE (IF i \in present THEN PresentLine(i) ELSE <<>>)
         \o PresentLines(i + 1, present)

\* one line of each kind, without its line break
LineOf(kind) ==
    CASE kind = "BuildBegin" -> pbx_build_file_marker
      [] kind = "RefBegin" -> pbx_file_ref_marker
      [] kind = "HomeAnchor" ->
            <<"\t\t", "5F0000000000000000000001", " /* ">> \o HomeMarker
            \o <<" in ", "Sources", " */", " = {",
                 "isa = PBXBuildFile; fileRef = ", "5F0000000000000000000002",
                 " /* ">> \o HomeMarker \o <<" */", "; };">>
      [] kind = "PresentationAnchor" ->
            <<"\t\t\t\t", "path = ">> \o PresentationMarker \o <<";">>
      [] kind = "LocalAnchor" -> <<"\t\t\t\t", "path = ">> \o LocalMarker \o <<";">>
      [] kind = "UseCaseAnchor" ->
            <<"\t\t\t\t", "path = ">> \o UseCaseMarker \o <<";">>
      [] kind = "SourcesBegin" ->
            <<"\t\t", "5F0000000000000000000003">> \o sources_marker
      [] kind = "FilesOpen" -> <<"\t\t\t">> \o files_marker

RECURSIVE Body(_, _, _, _)
Body(k, absent, last, present) ==
    IF k > Len(Kinds) THEN <<>>
    ELSE (IF Kinds[k] = "Present" THEN PresentLines(1, present)
          ELSE IF Kinds[k] \in absent \/ Kinds[k] = last THEN <<>>
          ELSE LineOf(Kinds[k]) \o <<NL>>)
         \o Body(k + 1, absent, last, present)

Manifest(absent, last, present) ==
    <<"// !$*UTF8*$!", NL>> \o Body(1, absent, last, present)
    \o <<"}", NL>>
    \o (IF last = "none" THEN <<>> ELSE LineOf(last))

ManifestsEnding(lasts) ==
    {Manifest(absent, last, present) :
        absent \in {a \in SUBSET OptionalKinds : Cardinality(a) <= MaxAbsent},
        last \in lasts, present \in PresentChoices}

Manifests == ManifestsEnding(LastKinds)

-----------------------------------------------------------------------------
(* State machine *)

Runs == {1, 2}

InitFrom(manifests) ==
    /\ disk \in manifests
    /\ input = disk
    /\ pc = [p \in Runs |-> "read"]
    /\ content = [p \in Runs |-> <<>>]
    /\ original = [p \in Runs |-> <<>>]
    /\ files_to_process = [p \in Runs |-> <<>>]
    /\ file_refs = [p \in Runs |-> <<>>]
    /\ build_files = [p \in Runs |-> <<>>]
    /\ writes = [p \in Runs |-> 0]
    /\ probe = <<>>

Init == InitFrom(Manifests)

\* lines 33-34
ReadProject(p) ==
    /\ pc[p] = "read"
    /\ content' = [content EXCEPT ![p] = disk]
    /\ original' = [original EXCEPT ![p] = disk]
    /\ pc' = [pc EXCEPT ![p] = "check"]
    /\ UNCHANGED <<disk, files_to_process, file_refs, build_files, writes,
                   input, probe>>

\* lines 36-58
CheckFiles(p) ==
    /\ pc[p] = "check"
    /\ LET todo == CheckedFiles(content[p])
       IN  /\ files_to_process' = [files_to_process EXCEPT ![p] = todo]
           /\ IF todo = <<>>
              THEN /\ pc' = [pc EXCEPT ![p] = "all_present"]
                   /\ UNCHANGED <<file_refs, build_files>>
              ELSE /\ pc' = [pc EXCEPT ![p] = "fileref"]
                   /\ file_refs' = [file_refs EXCEPT ![p] = FileRefsOf(todo)]
                   /\ build_files' =
                          [build_files EXCEPT ![p] = BuildFilesOf(todo)]
    /\ UNCHANGED <<disk, content, original, writes, input, probe>>

\* lines 63-65 without the return: the pass is skipped and the run goes on
AddFileReferences_Continue(p) ==
    /\ pc[p] = "fileref"
    /\ pc' = [pc EXCEPT ![p] = "buildfile"]
    /\ LET pbx_file_ref_pos == find(content[p], pbx_file_ref_marker, 0)
       IN  IF pbx_file_ref_pos = -1
           THEN UNCHANGED content
           ELSE content' = [content EXCEPT ![p] =
                    InsertAfterMarkerLine(content[p], pbx_file_ref_pos,
                                          file_ref_entries(file_refs[p]))]
    /\ UNCHANGED <<disk, files_to_process, file_refs, build_files, original,
                   writes, input, probe>>

\* lines 60-76
AddFileReferences(p) ==
    /\ pc[p] = "fileref"
    /\ LET pbx_file_ref_pos == find(content[p], pbx_file_ref_marker, 0)
       IN  IF pbx_file_ref_pos = -1
           THEN /\ pc' = [pc EXCEPT ![p] = "no_fileref_section"]
                /\ UNCHANGED content
           ELSE /\ pc' = [pc EXCEPT ![p] = "buildfile"]
                /\ content' = [content EXCEPT ![p] =
                       InsertAfterMarkerLine(content[p], pbx_file_ref_pos,
                                             file_ref_entries(file_refs[p]))]
    /\ UNCHANGED <<disk, files_to_process, file_refs, build_files, original,
                   writes, input, probe>>

\* lines 81-83 without the return: the pass is skipped and the run goes on
AddBuildFiles_Continue(p) ==
    /\ pc[p] = "buildfile"
    /\ pc' = [pc EXCEPT ![p] = "groups"]
    /\ LET pbx_build_file_pos == find(content[p], pbx_build_file_marker, 0)
       IN  IF pbx_build_file_pos = -1
           THEN UNCHANGED content
           ELSE content' = [content EXCEPT ![p] =
                    InsertAfterMarkerLine(content[p], pbx_build_file_pos,
                                          build_file_entries(build_files[p]))]
    /\ UNCHANGED <<disk, files_to_process, file_refs, build_files, original,
                   writes, input, probe>>

\* lines 78-92
AddBuildFiles(p) ==
    /\ pc[p] = "buildfile"
    /\ LET pbx_build_file_pos == find(content[p], pbx_build_file_marker, 0)
       IN  IF pbx_build_file_pos = -1
           THEN /\ pc' = [pc EXCEPT ![p] = "no_buildfile_section"]
                /\ UNCHANGED content
           ELSE /\ pc' = [pc EXCEPT ![p] = "groups"]
                /\ content' = [content EXCEPT ![p] =
                       InsertAfterMarkerLine(content[p], pbx_build_file_pos,
                                             build_file_entries(build_files[p]))]
    /\ UNCHANGED <<disk, files_to_process, file_refs, build_files, original,
                   writes, input, probe>>

\* the group pass followed by a write of the buffer (lines 144-145 moved up)
AddGroupMembers_Saves(p) ==
    /\ pc[p] = "groups"
    /\ content' = [content EXCEPT ![p] = AddToGroups(content[p], file_refs[p])]
    /\ disk' = content'[p]
    /\ pc' = [pc EXCEPT ![p] = "sources"]
    /\ UNCHANGED <<files_to_process, file_refs, build_files, original,
                   writes, input, probe>>

\* lines 94-125
AddGroupMembers(p) ==
    /\ pc[p] = "groups"
    /\ content' = [content EXCEPT ![p] = AddToGroups(content[p], file_refs[p])]
    /\ pc' = [pc EXCEPT ![p] = "sources"]
    /\ UNCHANGED <<disk, files_to_process, file_refs, build_files, original,
                   writes, input, probe>>

\* lines 127-141
AddSourcesPhase(p) ==
    /\ pc[p] = "sources"
    /\ content' = [content EXCEPT ![p] = AddToSources(content[p], build_files[p])]
    /\ pc' = [pc EXCEPT ![p] = "write"]
    /\ UNCHANGED <<disk, files_to_process, file_refs, build_files, original,
                   writes, input, probe>>

\* lines 143-147
WriteBack(p) ==
    /\ pc[p] = "write"
    /\ disk' = content[p]
    /\ writes' = [writes EXCEPT ![p] = @ + 1]
    /\ pc' = [pc EXCEPT ![p] = "added"]
    /\ UNCHANGED <<content, files_to_process, file_refs, build_files, original,
                   input, probe>>

Step(p) ==
    \/ ReadProject(p)
    \/ CheckFiles(p)
    \/ AddFileReferences(p)
    \/ AddBuildFiles(p)
    \/ AddGroupMembers(p)
    \/ AddSourcesPhase(p)
    \/ WriteBack(p)

\* the invocation has returned: lines 48, 65, 83 or the end of the function
Returned(p) ==
    pc[p] \in {"all_present", "no_fileref_section", "no_buildfile_section",
               "added"}

\* the script run twice, the second run after the first has returned
Next == \E p \in Runs : (\A q \in Runs : q < p => Returned(q)) /\ Step(p)

Spec == Init /\ [][Next]_vars

\* two invocations on the same manifest with no locking: any interleaving of
\* their steps
NextConcurrent == \E p \in Runs : Step(p)

InitConcurrent == InitFrom(ManifestsEnding({"none", "LocalAnchor"}))

SpecConcurrent == InitConcurrent /\ [][NextConcurrent]_vars

\* add_files_to_project as a function from the text read to the text the file
\* holds when the invocation returns (lines 30-147)
Patch(text) ==
    LET todo == CheckedFiles(text)
        refs == FileRefsOf(todo)
        builds == BuildFilesOf(todo)
        pbx_file_ref_pos == find(text, pbx_file_ref_marker, 0)
        with_refs == InsertAfterMarkerLine(text, pbx_file_ref_pos,
                                           file_ref_entries(refs))
        pbx_build_file_pos == find(with_refs, pbx_build_file_marker, 0)
        with_builds == InsertAfterMarkerLine(with_refs, pbx_build_file_pos,
                                             build_file_entries(builds))
    IN  IF todo = <<>> THEN text
        ELSE IF pbx_file_ref_pos = -1 THEN text
        ELSE IF pbx_build_file_pos = -1 THEN text
        ELSE AddToSources(AddToGroups(with_builds, refs), builds)

-----------------------------------------------------------------------------
(* The anchor selection of lines 104-117 on its own: applied to two entries *)
(* and one buffer drawn from bounded sets                                   *)

ProbeEntries ==
    {files_to_add[i] : i \in 1..Len(files_to_add)}
    \cup {E(DataLocal, <<"Home", "ScreenCache.swift">>),
          E(DomainUseCase, <<"Auth", "UseCase", ".swift">>),
          E(PresentationAuth, <<"SignUpView.swift">>),
          E(<<"App">>, <<"ThinkFastApp.swift">>)}

ProbeTexts == {Manifest({}, "none", {}), Manifest({}, "none", {6})}

InitAnchor == InitFrom({Manifest({}, "none", {})})

SelectAnchors ==
    /\ probe = <<>>
    /\ \E e1 \in ProbeEntries, e2 \in ProbeEntries, text \in ProbeTexts :
           probe' = <<[first |-> e1, second |-> e2,
                       with_chart_models |-> in(ChartsMarker, text),
                       first_marker |-> SelectMarker(e1.file_path, text),
                       second_marker |-> SelectMarker(e2.file_path, text)]>>
    /\ UNCHANGED <<disk, pc, content, files_to_process, file_refs,
                   build_files, original, writes, input>>

SpecAnchor == InitAnchor /\ [][SelectAnchors]_vars

-----------------------------------------------------------------------------
(* Reading a manifest *)

\* number of places where pat occurs in text
Occurrences(text, pat) ==
    Cardinality({i \in 0..(Len(text) - Len(pat)) : MatchAt(text, pat, i)})

\* 0-based positions where the lines of text start
LineStarts(text) == {0} \cup {i \in 1..Len(text) : text[i] = NL}

\* the positions, among the line starts of text, where `line` (a whole line
\* with its line break) is a line of text
LinePositions(starts, text, line) == {i \in starts : MatchAt(text, line, i)}

LineCount(text, line) == Cardinality(LinePositions(LineStarts(text), text, line))

LineCountAt(starts, text, line) == Cardinality(LinePositions(starts, text, line))

LinePositionAt(starts, text, line) ==
    CHOOSE i \in LinePositions(starts, text, line) : TRUE

LinePosition(text, line) == LinePositionAt(LineStarts(text), text, line)

RefIsa ==
    "isa = PBXFileReference; lastKnownFileType = sourcecode.swift; path = "

\* number of reference records of text whose id is `id`: lines that start
\* with the id as key and carry the PBXFileReference tag
RefRecordCount(text, id) ==
    Cardinality({i \in 2..Len(text) :
        /\ text[i] = id
        /\ text[i - 1] = "\t\t"
        /\ (i = 2 \/ text[i - 2] = NL)
        /\ \E j \in (i + 1)..Len(text) :
              /\ text[j] = RefIsa
              /\ \A k \in i..j : text[k] # NL})

\* the Sources build phase and its "files = (" list can be located
SourcesListPresent(text) ==
    /\ in(sources_marker, text)
    /\ find(text, files_marker, find(text, sources_marker, 0)) # -1

StaticAnchors == {HomeMarker, PresentationMarker, LocalMarker, UseCaseMarker}

\* the first occurrence of marker is on a line that ends with a line break
Terminated(text, marker) ==
    /\ in(marker, text)
    /\ find(text, <<NL>>, find(text, marker, 0)) # -1

\* The marker the group loop used for entry ref of invocation p.  The buffer
\* only grows, the lines inserted hold none of the static markers, and
\* "ChartModels.swift" is in the buffer from the reference pass on whenever it
\* is at the end, so the marker chosen during the loop is the one chosen on the
\* final buffer.
MarkerOf(p, ref) == SelectMarker(ref.file_path, content[p])

HasAnchor(p, ref) == in(MarkerOf(p, ref), content[p])

Name(i) == LastComponent(files_to_add[i].file_path)

NewIndexes(p) == 1..Len(file_refs[p])

RefLine(p, k) ==
    FileRefEntry(file_refs[p][k].file_ref_id, file_refs[p][k].filename)

BuildLine(p, k) ==
    BuildFileEntry(build_files[p][k].build_file_id,
                   build_files[p][k].file_ref_id, build_files[p][k].filename)

GroupLine(p, k) ==
    GroupEntry(file_refs[p][k].file_ref_id, file_refs[p][k].filename)

SourceLine(p, k) ==
    SourceEntry(build_files[p][k].build_file_id, build_files[p][k].filename)

-----------------------------------------------------------------------------
(* C1: idempotence *)

\* C1 as stated: when the second run (started after the first returned) has
\* returned, it found every candidate file name present and skipped them all,
\* it did not write, and the file is what the first run left.
C1_SecondRunSkipsAll ==
    Returned(2) =>
        /\ pc[2] = "all_present"
        /\ writes[2] = 0
        /\ disk = original[2]

\* C1 amended: the second run never writes and the file stays what the first
\* run left; it skips every candidate when the first run wrote the file, and
\* stops where the first run stopped when the first run did not write.
C1_Idempotent ==
    Returned(2) =>
        /\ writes[2] = 0
        /\ disk = original[2]
        /\ (writes[1] = 1 => pc[2] = "all_present")
        /\ (writes[1] = 0 => pc[2] = pc[1])

\* the first run patched the file and the second run has returned
C1_Witness ==
    /\ Returned(2)
    /\ writes[1] = 1
    /\ original[2] # input
    /\ files_to_process[1] # <<>>

-----------------------------------------------------------------------------
(* C2: selective patching *)

C2_Anchored(text) ==
    /\ in(pbx_file_ref_marker, text)
    /\ in(pbx_build_file_marker, text)
    /\ \A m \in StaticAnchors : in(m, text)
    /\ SourcesListPresent(text)

\* what C2 promises of the output of invocation p
C2_Selective(p) ==
    LET starts == LineStarts(content[p])
    IN  /\ \A i \in AllCandidates :
              in(Name(i), original[p]) =>
                  Occurrences(content[p], Name(i))
                      = Occurrences(original[p], Name(i))
        /\ \A k \in NewIndexes(p) :
              /\ LineCountAt(starts, content[p], RefLine(p, k)) = 1
              /\ LineCountAt(starts, content[p], BuildLine(p, k)) = 1
              /\ LineCountAt(starts, content[p], GroupLine(p, k)) = 1
              /\ LineCountAt(starts, content[p], SourceLine(p, k)) = 1
              /\ Occurrences(content[p], <<file_refs[p][k].file_ref_id>>) = 3
              /\ Occurrences(content[p], <<build_files[p][k].build_file_id>>) = 2
        /\ Occurrences(content[p], <<NL>>)
               = Occurrences(original[p], <<NL>>) + 4 * Len(file_refs[p])

\* C2 as stated: with both section markers, the group anchors and the Sources
\* files list present in the input, the written output has no new line for a
\* candidate already present and exactly four new lines per added candidate,
\* the reference id in three of them and the build id in two.
C2_SelectivePatching ==
    \A p \in Runs :
        (pc[p] = "added" /\ C2_Anchored(original[p])) => C2_Selective(p)

\* C2 amended: the same, when in addition the first occurrence of each group
\* anchor is on a line that ends with a line break.
C2_SelectivePatchingTerminated ==
    \A p \in Runs :
        (/\ pc[p] = "added"
         /\ C2_Anchored(original[p])
         /\ \A m \in StaticAnchors : Terminated(original[p], m))
        => C2_Selective(p)

\* a run wrote a manifest in which one candidate of a group was present and
\* another of the same group was added
C2_Witness ==
    /\ pc[1] = "added"
    /\ C2_Anchored(original[1])
    /\ \A m \in StaticAnchors : Terminated(original[1], m)
    /\ in(Name(2), original[1])
    /\ ~in(Name(1), original[1])
    /\ LineCount(content[1], GroupLine(1, 1)) = 1

-----------------------------------------------------------------------------
(* C3: referential integrity *)

\* C3: in a manifest a run has written, every build record the run inserted
\* is there once and has exactly one reference record with its fileRef id.
C3_ReferentialIntegrity ==
    \A p \in Runs :
        pc[p] = "added" =>
            /\ disk = content[p]
            /\ LET starts == LineStarts(disk)
               IN  \A k \in NewIndexes(p) :
                      /\ LineCountAt(starts, disk, BuildLine(p, k)) = 1
                      /\ RefRecordCount(disk, build_files[p][k].file_ref_id) = 1

\* a run has written build records for several new entries
C3_Witness ==
    /\ pc[1] = "added"
    /\ Len(build_files[1]) >= 2
    /\ LineCount(disk, BuildLine(1, 2)) = 1

-----------------------------------------------------------------------------
(* C4: a section begin-marker is missing *)

C4_OneMarkerMissing(text) ==
    in(pbx_file_ref_marker, text) # in(pbx_build_file_marker, text)

\* the insertions of the passes whose anchors are there have reached the file
C4_OtherPassesWritten(p) ==
    /\ writes[p] = 1
    /\ disk # original[p]
    /\ \A k \in NewIndexes(p) :
          /\ in(pbx_file_ref_marker, original[p])
                 => LineCount(disk, RefLine(p, k)) = 1
          /\ in(pbx_build_file_marker, original[p])
                 => LineCount(disk, BuildLine(p, k)) = 1
          /\ SourcesListPresent(original[p])
                 => LineCount(disk, SourceLine(p, k)) = 1

\* C4 as stated: when a candidate needs adding and exactly one of the two
\* section begin-markers is absent, only that section's pass is abandoned: the
\* other passes run and their insertions are written to the file.
C4_PartialPatchWritten ==
    \A p \in Runs :
        (/\ Returned(p)
         /\ files_to_process[p] # <<>>
         /\ C4_OneMarkerMissing(original[p]))
        => C4_OtherPassesWritten(p)

\* C4 amended: when a candidate needs adding and a section begin-marker is
\* absent, the invocation returns at that marker's check, nothing is written
\* and the file stays as it was read.
C4_RunAbandoned ==
    \A p \in Runs :
        (/\ Returned(p)
         /\ files_to_process[p] # <<>>
         /\ (~in(pbx_file_ref_marker, original[p])
             \/ ~in(pbx_build_file_marker, original[p])))
        => /\ writes[p] = 0
           /\ disk = original[p]
           /\ pc[p] = (IF in(pbx_file_ref_marker, original[p])
                       THEN "no_buildfile_section" ELSE "no_fileref_section")

\* a run returned at the missing PBXBuildFile marker after the reference pass
\* had changed its buffer
C4_Witness ==
    /\ pc[1] = "no_buildfile_section"
    /\ files_to_process[1] # <<>>
    /\ LineCount(content[1], RefLine(1, 1)) = 1
    /\ SourcesListPresent(original[1])

-----------------------------------------------------------------------------
(* C5: a group anchor is missing *)

\* C5: when both section markers and the Sources files list are present and
\* the anchor chosen for a new entry is not in the buffer, the written output
\* has the entry's reference, build and build-phase lines and no membership
\* line for it, and every new entry whose anchor is there (on a line ended by
\* a line break) has its membership line.
C5_AnchorMissingDegrades ==
    \A p \in Runs :
        (/\ Returned(p)
         /\ files_to_process[p] # <<>>
         /\ in(pbx_file_ref_marker, original[p])
         /\ in(pbx_build_file_marker, original[p])
         /\ SourcesListPresent(original[p]))
        => /\ pc[p] = "added"
           /\ disk = content[p]
           /\ LET starts == LineStarts(disk)
              IN  \A k \in NewIndexes(p) :
                     /\ LineCountAt(starts, disk, RefLine(p, k)) = 1
                     /\ LineCountAt(starts, disk, BuildLine(p, k)) = 1
                     /\ LineCountAt(starts, disk, SourceLine(p, k)) = 1
                     /\ ~HasAnchor(p, file_refs[p][k])
                            => Occurrences(disk, GroupLine(p, k)) = 0
                     /\ Terminated(disk, MarkerOf(p, file_refs[p][k]))
                            => LineCountAt(starts, disk, GroupLine(p, k)) = 1

\* a run wrote a manifest where one new entry has no membership line, its
\* anchor being absent, and another new entry has one
C5_Witness ==
    /\ pc[1] = "added"
    /\ SourcesListPresent(original[1])
    /\ \E k \in NewIndexes(1) :
          /\ ~HasAnchor(1, file_refs[1][k])
          /\ Occurrences(disk, GroupLine(1, k)) = 0
          /\ LineCount(disk, SourceLine(1, k)) = 1
    /\ \E k \in NewIndexes(1) : LineCount(disk, GroupLine(1, k)) = 1

-----------------------------------------------------------------------------
(* C6: single commit at the end *)

\* C6: an invocation writes the file at most once, as its last step; while it
\* runs and on every return without a write the file is what the invocation
\* read (for the first run: the input), and after the write it is the buffer
\* with all passes done.
C6_SingleCommit ==
    \A p \in Runs :
        /\ writes[p] <= 1
        /\ (writes[p] = 1) = (pc[p] = "added")
        /\ pc[p] \notin {"read", "added"} => disk = original[p]
        /\ pc[1] # "added" => disk = input
        /\ (pc[p] = "added" /\ \A q \in Runs : q > p => writes[q] = 0)
               => /\ disk = content[p]
                  /\ content[p] = Patch(original[p])

\* a run is between the passes: its buffer has the reference lines, the file
\* is still the input
C6_Witness ==
    /\ pc[1] = "groups"
    /\ content[1] # original[1]
    /\ LineCount(content[1], RefLine(1, 1)) = 1
    /\ LineCount(disk, RefLine(1, 1)) = 0
    /\ disk = input

-----------------------------------------------------------------------------
(* C7: order of the membership lines of one group *)

\* new entries i < j of invocation p share a marker and both have a
\* membership line in the output (starts: the line starts of the output)
C7_SameGroup(p, starts, i, j) ==
    /\ i < j
    /\ MarkerOf(p, file_refs[p][i]) = MarkerOf(p, file_refs[p][j])
    /\ LineCountAt(starts, content[p], GroupLine(p, i)) = 1
    /\ LineCountAt(starts, content[p], GroupLine(p, j)) = 1

\* the reference, build and build-phase lines of i come before those of j
C7_RecordsInOrder(p, starts, i, j) ==
    /\ LinePositionAt(starts, content[p], RefLine(p, i))
           < LinePositionAt(starts, content[p], RefLine(p, j))
    /\ LinePositionAt(starts, content[p], BuildLine(p, i))
           < LinePositionAt(starts, content[p], BuildLine(p, j))
    /\ SourcesListPresent(original[p]) =>
           LinePositionAt(starts, content[p], SourceLine(p, i))
               < LinePositionAt(starts, content[p], SourceLine(p, j))

\* C7 as stated: the membership lines of new entries of one group are in
\* candidate order, the later candidate's line after the earlier one's.
C7_MembershipInCandidateOrder ==
    \A p \in Runs :
        pc[p] = "added" =>
            LET starts == LineStarts(content[p])
            IN  \A i \in NewIndexes(p), j \in NewIndexes(p) :
                    C7_SameGroup(p, starts, i, j) =>
                        LinePositionAt(starts, content[p], GroupLine(p, i))
                            < LinePositionAt(starts, content[p], GroupLine(p, j))

\* C7 amended: the membership lines of new entries of one group are in
\* reverse candidate order (each is put right after the anchor line, before
\* the ones put there earlier), while the reference, build and build-phase
\* lines are in candidate order (each entry's before the next entry's).
C7_MembershipInReverseOrder ==
    \A p \in Runs :
        pc[p] = "added" =>
            LET starts == LineStarts(content[p])
            IN  \A i \in NewIndexes(p), j \in NewIndexes(p) :
                    /\ C7_SameGroup(p, starts, i, j) =>
                           LinePositionAt(starts, content[p], GroupLine(p, j))
                               < LinePositionAt(starts, content[p], GroupLine(p, i))
                    /\ j = i + 1 => C7_RecordsInOrder(p, starts, i, j)

\* a run wrote membership lines for two new entries of the Local group
C7_Witness ==
    /\ pc[1] = "added"
    /\ Len(file_refs[1]) >= 2
    /\ file_refs[1][1].filename = Name(1)
    /\ file_refs[1][2].filename = Name(2)
    /\ C7_SameGroup(1, LineStarts(content[1]), 1, 2)

-----------------------------------------------------------------------------
(* C8: the anchor of an entry *)

-----------------------------------------------------------------------------
(* C9: where the membership lines land *)

C9_InsertedGroupLines(p) == {GroupLine(p, k) : k \in NewIndexes(p)}

\* 0-based start of the line that ends at the line break text[g]
C9_PrevLineStart(text, g) ==
    LET breaks == {k \in 1..(g - 1) : text[k] = NL}
    IN  IF breaks = {} THEN 0
        ELSE CHOOSE k \in breaks : \A m \in breaks : m <= k

\* the line after which the block of membership lines holding the line at g
\* was put: the nearest line above that is not a membership line of the run
RECURSIVE C9_AnchorLine(_, _, _)
C9_AnchorLine(text, g, p) ==
    IF g = 0 THEN <<>>
    ELSE LET s == C9_PrevLineStart(text, g)
             above == SubSeq(text, s + 1, g)
         IN  IF above \in C9_InsertedGroupLines(p)
             THEN C9_AnchorLine(text, s, p)
             ELSE above

\* C9: every membership line a run inserted was put after a line of the input
\* manifest that holds the entry's anchor, never after a reference or build
\* line the same run inserted.
C9_MembershipAfterInputLine ==
    \A p \in Runs :
        pc[p] = "added" =>
            \A k \in NewIndexes(p) :
                LineCount(content[p], GroupLine(p, k)) = 1 =>
                    LET anchor_line ==
                            C9_AnchorLine(content[p],
                                LinePosition(content[p], GroupLine(p, k)), p)
                    IN  /\ in(MarkerOf(p, file_refs[p][k]), anchor_line)
                        /\ LineCount(original[p], anchor_line) >= 1
                        /\ \A n \in NewIndexes(p) :
                              /\ anchor_line # RefLine(p, n)
                              /\ anchor_line # BuildLine(p, n)

-----------------------------------------------------------------------------
(* C10: two invocations at once *)

AllReturned == \A p \in Runs : Returned(p)

\* the manifest left by running the two invocations one after the other
SequentialResult == Patch(Patch(input))

\* C10 as stated, for the interleaving it names (both invocations write, the
\* last writer overwriting the other's result): the final manifest differs
\* from the one two runs in sequence leave.
C10_LastWriterLosesResult ==
    (AllReturned /\ writes[1] = 1 /\ writes[2] = 1)
        => disk # SequentialResult

\* C10 amended: with atomic whole-file reads and writes, whatever the
\* interleaving of the two invocations, the final manifest is the one two
\* runs in sequence leave (both compute the same text from the same input).
C10_InterleavingsAgree == AllReturned => disk = SequentialResult

\* both invocations read the input before either wrote, and both wrote
C10_Witness ==
    /\ AllReturned
    /\ writes[1] = 1
    /\ writes[2] = 1
    /\ original[1] = input
    /\ original[2] = input
    /\ disk # input

=============================================================================
